---- MODULE Spec2Model ----
(***************************************************************************)
(* A model of github.com/jbowes/whatsnew: the version comparator (cmp,     *)
(* isValid, isPrerelease, maybeV over golang.org/x/mod/semver), the        *)
(* resolution run (doWork), option validation (Options.resolve) and the    *)
(* asynchronous handle (Check, Future.Get).                                *)
(*                                                                         *)
(* Go strings are modelled as sequences of one-character strings, so that  *)
(* prefixing and parsing are computed character by character.             *)
(***************************************************************************)
EXTENDS Integers, Sequences, FiniteSets, TLC

\* ------------------------------------------------------------------------
\* Strings and characters
\* ------------------------------------------------------------------------

\* The characters that occur in the modelled strings, in ASCII order.
Ascii ==
    << "+", "-", ".", "0", "1", "2", "3", "4", "5", "6", "7", "8", "9",
       "V", "a", "b", "c", "e", "i", "k", "o", "s", "t", "v" >>

Ord(c) == CHOOSE n \in 1..Len(Ascii) : Ascii[n] = c

Digits == {"0", "1", "2", "3", "4", "5", "6", "7", "8", "9"}

Letters == {"V", "a", "b", "c", "e", "i", "k", "o", "s", "t", "v"}

Empty == << >>

\* v[n:] of Go, n counted from 0.
From(v, n) == SubSeq(v, n + 1, Len(v))

\* v[:n] of Go.
Upto(v, n) == SubSeq(v, 1, n)

\* The byte-wise order of Go strings: x < y.
RECURSIVE StrLess(_, _)
StrLess(x, y) ==
    IF y = Empty THEN FALSE
    ELSE IF x = Empty THEN TRUE
    ELSE IF Head(x) # Head(y) THEN Ord(Head(x)) < Ord(Head(y))
    ELSE StrLess(Tail(x), Tail(y))

\* ------------------------------------------------------------------------
\* golang.org/x/mod/semver, as called from whatsnew.go
\* ------------------------------------------------------------------------

\* The length of the longest prefix of v made of digits.
RECURSIVE DigitRun(_)
DigitRun(v) ==
    IF v # Empty /\ Head(v) \in Digits THEN 1 + DigitRun(Tail(v)) ELSE 0

isIdentChar(c) == c \in Letters \/ c \in Digits \/ c = "-"

isBadNum(v) == DigitRun(v) = Len(v) /\ Len(v) > 1 /\ v[1] = "0"

isNum(v) == DigitRun(v) = Len(v)

parseInt(v) ==
    IF v = Empty \/ Head(v) \notin Digits
    THEN [t |-> Empty, rest |-> Empty, ok |-> FALSE]
    ELSE LET n == DigitRun(v) IN
         IF v[1] = "0" /\ n # 1
         THEN [t |-> Empty, rest |-> Empty, ok |-> FALSE]
         ELSE [t |-> Upto(v, n), rest |-> From(v, n), ok |-> TRUE]

\* The scan of parsePrerelease and parseBuild from position n (1-based) of
\* v, the current identifier having started at position start. The result
\* is the position where the scan stopped, or 0 when it failed.
RECURSIVE ScanIdents(_, _, _, _)
ScanIdents(v, n, start, pre) ==
    IF n > Len(v) \/ (pre /\ v[n] = "+")
    THEN IF start = n \/ (pre /\ isBadNum(SubSeq(v, start, n - 1))) THEN 0 ELSE n
    ELSE IF ~isIdentChar(v[n]) /\ v[n] # "." THEN 0
    ELSE IF v[n] = "."
         THEN IF start = n \/ (pre /\ isBadNum(SubSeq(v, start, n - 1)))
              THEN 0
              ELSE ScanIdents(v, n + 1, n + 1, pre)
    ELSE ScanIdents(v, n + 1, start, pre)

parsePrerelease(v) ==
    IF v = Empty \/ Head(v) # "-"
    THEN [t |-> Empty, rest |-> Empty, ok |-> FALSE]
    ELSE LET n == ScanIdents(v, 2, 2, TRUE) IN
         IF n = 0 THEN [t |-> Empty, rest |-> Empty, ok |-> FALSE]
         ELSE [t |-> Upto(v, n - 1), rest |-> From(v, n - 1), ok |-> TRUE]

parseBuild(v) ==
    IF v = Empty \/ Head(v) # "+"
    THEN [t |-> Empty, rest |-> Empty, ok |-> FALSE]
    ELSE LET n == ScanIdents(v, 2, 2, FALSE) IN
         IF n = 0 THEN [t |-> Empty, rest |-> Empty, ok |-> FALSE]
         ELSE [t |-> Upto(v, n - 1), rest |-> From(v, n - 1), ok |-> TRUE]

Unparsed == [ok |-> FALSE, major |-> Empty, minor |-> Empty, patch |-> Empty,
             prerelease |-> Empty, build |-> Empty]

\* The tail of parse after the patch number: prerelease, build, end of string.
parseSuffix(p, v) ==
    LET pr  == IF v # Empty /\ Head(v) = "-" THEN parsePrerelease(v)
               ELSE [t |-> Empty, rest |-> v, ok |-> TRUE]
        v2  == pr.rest
        bl  == IF v2 # Empty /\ Head(v2) = "+" THEN parseBuild(v2)
               ELSE [t |-> Empty, rest |-> v2, ok |-> TRUE]
    IN  IF ~pr.ok THEN Unparsed
        ELSE IF ~bl.ok THEN Unparsed
        ELSE IF bl.rest # Empty THEN Unparsed
        ELSE [p EXCEPT !.ok = TRUE, !.prerelease = pr.t, !.build = bl.t]

\* semver.parse: vMAJOR[.MINOR[.PATCH[-PRERELEASE][+BUILD]]].
parse(v) ==
    IF v = Empty \/ Head(v) # "v" THEN Unparsed
    ELSE LET ma == parseInt(Tail(v)) IN
    IF ~ma.ok THEN Unparsed
    ELSE IF ma.rest = Empty
         THEN [Unparsed EXCEPT !.ok = TRUE, !.major = ma.t,
                               !.minor = <<"0">>, !.patch = <<"0">>]
    ELSE IF Head(ma.rest) # "." THEN Unparsed
    ELSE LET mi == parseInt(Tail(ma.rest)) IN
    IF ~mi.ok THEN Unparsed
    ELSE IF mi.rest = Empty
         THEN [Unparsed EXCEPT !.ok = TRUE, !.major = ma.t,
                               !.minor = mi.t, !.patch = <<"0">>]
    ELSE IF Head(mi.rest) # "." THEN Unparsed
    ELSE LET pa == parseInt(Tail(mi.rest)) IN
    IF ~pa.ok THEN Unparsed
    ELSE parseSuffix([Unparsed EXCEPT !.major = ma.t, !.minor = mi.t,
                                      !.patch = pa.t], pa.rest)

compareInt(x, y) ==
    IF x = y THEN 0
    ELSE IF Len(x) < Len(y) THEN -1
    ELSE IF Len(x) > Len(y) THEN 1
    ELSE IF StrLess(x, y) THEN -1 ELSE 1

\* The length of the identifier at the head of x: up to the first ".".
RECURSIVE IdentLen(_)
IdentLen(x) ==
    IF x = Empty \/ Head(x) = "." THEN 0 ELSE 1 + IdentLen(Tail(x))

RECURSIVE comparePrereleaseLoop(_, _)
comparePrereleaseLoop(x, y) ==
    IF x = Empty \/ y = Empty
    THEN IF x = Empty THEN -1 ELSE 1
    ELSE LET x1 == Tail(x)
             y1 == Tail(y)
             dx == Upto(x1, IdentLen(x1))
             dy == Upto(y1, IdentLen(y1))
             ix == isNum(dx)
             iy == isNum(dy)
         IN  IF dx # dy
             THEN IF ix # iy THEN (IF ix THEN -1 ELSE 1)
                  ELSE IF ix /\ Len(dx) < Len(dy) THEN -1
                  ELSE IF ix /\ Len(dx) > Len(dy) THEN 1
                  ELSE IF StrLess(dx, dy) THEN -1 ELSE 1
             ELSE comparePrereleaseLoop(From(x1, IdentLen(x1)),
                                        From(y1, IdentLen(y1)))

comparePrerelease(x, y) ==
    IF x = y THEN 0
    ELSE IF x = Empty THEN 1
    ELSE IF y = Empty THEN -1
    ELSE comparePrereleaseLoop(x, y)

semverCompare(v, w) ==
    LET pv == parse(v)
        pw == parse(w)
    IN  IF ~pv.ok /\ ~pw.ok THEN 0
        ELSE IF ~pv.ok THEN -1
        ELSE IF ~pw.ok THEN 1
        ELSE IF compareInt(pv.major, pw.major) # 0
             THEN compareInt(pv.major, pw.major)
        ELSE IF compareInt(pv.minor, pw.minor) # 0
             THEN compareInt(pv.minor, pw.minor)
        ELSE IF compareInt(pv.patch, pw.patch) # 0
             THEN compareInt(pv.patch, pw.patch)
        ELSE comparePrerelease(pv.prerelease, pw.prerelease)

semverIsValid(v) == parse(v).ok

semverPrerelease(v) == parse(v).prerelease

\* ------------------------------------------------------------------------
\* whatsnew.go: the comparator
\* ------------------------------------------------------------------------

\* maybeV without the test for a "v" that is already there.
maybeVAlways(v) == IF v # Empty THEN <<"v">> \o v ELSE v

maybeV(v) == IF v # Empty /\ v[1] # "v" THEN <<"v">> \o v ELSE v

\* cmp that leaves its second operand as it came.
cmpOneSided(v1, v2) == semverCompare(maybeV(v1), v2)

cmp(v1, v2) == semverCompare(maybeV(v1), maybeV(v2))

isValid(v1) == semverIsValid(maybeV(v1))

isPrerelease(v1) == semverPrerelease(maybeV(v1)) # Empty


\* ------------------------------------------------------------------------
\* Durations and times, in seconds
\* ------------------------------------------------------------------------

Second == 1

Hour == 3600

Day == 24 * Hour

DefaultFrequency == 7 * 24 * Hour

DefaultTimeout == 5 * Second

\* Any negative Timeout disables the deadline; NoTimeout is the one named.
NoTimeout == -1

\* time.Time{}: the zero CheckTime of an Info that was never written.
ZeroTime == 0

\* The largest time.Duration: Time.Sub saturates at it.
maxDuration == 2147483647

\* t.Sub(u). The zero time lies more than maxDuration before any time the
\* clock shows, so the difference saturates.
Sub(t, u) == IF u = ZeroTime THEN maxDuration ELSE t - u

\* ------------------------------------------------------------------------
\* Bounds of the model
\* ------------------------------------------------------------------------

\* The longest release list the release source serves.
MaxRels == 2

\* How many times the clock advances (by one Day) in a behaviour.
MaxTicks == 1

\* How many Checks the caller starts in a behaviour.
MaxRuns == 2

\* How many times one caller thread calls Get on one Future.
MaxGets == 2

\* ------------------------------------------------------------------------
\* The values the inputs are drawn from
\* ------------------------------------------------------------------------

\* The clock at the start of a behaviour.
StartTime == 30 * Day

v100 == <<"v", "1", ".", "0", ".", "0">>
v101 == <<"v", "1", ".", "0", ".", "1">>
n101 == <<"1", ".", "0", ".", "1">>
v111 == <<"v", "1", ".", "1", ".", "1">>
n111 == <<"1", ".", "1", ".", "1">>
v200 == <<"v", "2", ".", "0", ".", "0">>
v200b == <<"v", "2", ".", "0", ".", "0", "-", "b">>
cookies == <<"c", "o", "o", "k", "i", "e", "s">>
n200 == <<"2", ".", "0", ".", "0">>
n200b == <<"2", ".", "0", ".", "0", "-", "b">>
V101 == <<"V", "1", ".", "0", ".", "1">>

\* The string v with the "v" written before it.
WithV(v) == <<"v">> \o v

\* Version strings as they come without the "v": versions, a prerelease,
\* a word, a capital "V", nothing.
Bodies == {Empty, n101, n111, n200, n200b, cookies, V101}

\* The strings handed to the comparator: each body without and with the "v".
Operands == Bodies \cup {WithV(v) : v \in Bodies}

Release(tag, draft, pre) == [TagName |-> tag, Draft |-> draft, Prerelease |-> pre]

\* The entries a release list is made of.
ReleaseMenu ==
    { Release(v101, FALSE, FALSE),
      Release(v111, FALSE, FALSE),
      Release(n111, FALSE, FALSE),
      Release(v200, TRUE, FALSE),
      Release(v200, FALSE, TRUE),
      Release(v200b, FALSE, FALSE),
      Release(cookies, FALSE, FALSE) }

\* The sequences over S of length at most n that hold no entry twice: a
\* release source lists a release once.
RECURSIVE SeqsUpTo(_, _)
SeqsUpTo(S, n) ==
    IF n = 0 THEN {Empty}
    ELSE LET shorter == SeqsUpTo(S, n - 1) IN
         shorter \cup
         UNION {{Append(q, x) : x \in S \ {q[k] : k \in 1..Len(q)}} :
                q \in {q \in shorter : Len(q) = n - 1}}

ReleaseLists == SeqsUpTo(ReleaseMenu, MaxRels)

\* Entity tags are opaque: they are never parsed, so they stay atoms.
RemoteEtags == {"", "etag-2"}

\* The entity tag of a source that always sends one.
SomeEtag == {"etag-2"}

Info(t, v, e) == [CheckTime |-> t, Version |-> v, Etag |-> e]

\* &impl.Info{}
EmptyInfo == Info(ZeroTime, Empty, "")

\* The records the cache store may hold when a behaviour starts.
StoreMenu ==
    { EmptyInfo,
      Info(ZeroTime, v101, ""),
      Info(StartTime - Hour, v101, "etag-1"),
      Info(StartTime - 25 * Hour, v111, "etag-2"),
      Info(StartTime - 8 * Day, v100, "etag-2") }

CurrentVersions == {v100, n101}

Options(slug, cache, freq, timeout, cacher, releaser) ==
    [Slug |-> slug, Cache |-> cache, Version |-> Empty, Frequency |-> freq,
     Timeout |-> timeout, Cacher |-> cacher, Releaser |-> releaser]

\* The Options values a caller passes to Check, Version left open.
OptionsMenu ==
    { Options("", "", 0, 0, "custom", "custom"),
      Options("you/your-app", "update-cache.json", 0, 0, "nil", "nil"),
      Options("you/your-app", "", Day, NoTimeout, "custom", "nil"),
      Options("", "update-cache.json", 0, 0, "custom", "custom"),
      Options("you/your-app", "", 0, 0, "nil", "custom") }


\* ------------------------------------------------------------------------
\* Errors
\* ------------------------------------------------------------------------

\* An error is the chain of messages fmt.Errorf's %w builds, outermost
\* first; the nil error is the empty chain.
NilErr == << >>

ErrMisconfiguredOptions == "invalid options provided"

\* errors.Is
errorsIs(err, target) == \E n \in 1..Len(err) : err[n] = target

\* ------------------------------------------------------------------------
\* whatsnew.go: the decisions of resolve and doWork
\* ------------------------------------------------------------------------

\* The defaults resolve fills in.
defaults(o) ==
    [o EXCEPT !.Cacher = IF @ = "nil" THEN "FileCacher" ELSE @,
              !.Releaser = IF @ = "nil" THEN "GitHubReleaser" ELSE @,
              !.Frequency = IF @ = 0 THEN DefaultFrequency ELSE @,
              !.Timeout = IF @ = 0 THEN DefaultTimeout ELSE @]

\* resolve without its second test: a Releaser beside a Slug passes.
resolveSkipsReleaser(o) ==
    IF o.Cacher # "nil" /\ o.Cache # ""
    THEN [err |-> <<"cache and cacher set", ErrMisconfiguredOptions>>, o |-> o]
    ELSE [err |-> NilErr, o |-> defaults(o)]

\* resolve with "or" for "and" in its first test: any Cacher is refused.
resolveRefusesCacher(o) ==
    IF o.Cacher # "nil" \/ o.Cache # ""
    THEN [err |-> <<"cache and cacher set", ErrMisconfiguredOptions>>, o |-> o]
    ELSE IF o.Releaser # "nil" /\ o.Slug # ""
    THEN [err |-> <<"releaser and slug set", ErrMisconfiguredOptions>>, o |-> o]
    ELSE [err |-> NilErr, o |-> defaults(o)]

\* Options.resolve: the error it returns and the Options it leaves behind.
resolve(o) ==
    IF o.Cacher # "nil" /\ o.Cache # ""
    THEN [err |-> <<"cache and cacher set", ErrMisconfiguredOptions>>, o |-> o]
    ELSE IF o.Releaser # "nil" /\ o.Slug # ""
    THEN [err |-> <<"releaser and slug set", ErrMisconfiguredOptions>>, o |-> o]
    ELSE [err |-> NilErr, o |-> defaults(o)]

\* withTimeout that tests the Timeout against zero only: NoTimeout gets a
\* deadline too, one that has already passed.
withTimeoutUnlessZero(timeout, t) ==
    IF timeout # 0 THEN <<t + timeout>> ELSE << >>

\* The context doWork runs under: <<t>> when it expires at time t, << >>
\* when it has no deadline.
withTimeout(timeout, t) == IF timeout > 0 THEN <<t + timeout>> ELSE << >>

\* cached without the error case: the record Cacher.Get handed back is used.
cachedKeepsRecord(got, err) == got

\* The record doWork goes on with after Cacher.Get returned (got, err).
cached(got, err) == IF err # NilErr THEN EmptyInfo ELSE got

\* isFresh with the comparison turned around.
isFreshInverted(t, info, frequency) == Sub(t, info.CheckTime) > frequency

\* now.Sub(i.CheckTime) < opts.Frequency
isFresh(t, info, frequency) == Sub(t, info.CheckTime) < frequency

\* selectStep without the draft case.
selectStepTakesDrafts(ver, rel) ==
    IF ~isValid(rel.TagName) THEN ver
    ELSE IF rel.Prerelease \/ isPrerelease(rel.TagName) THEN ver
    ELSE IF cmp(ver, rel.TagName) < 0 THEN rel.TagName
    ELSE ver

\* selectStep without the prerelease case.
selectStepTakesPrereleases(ver, rel) ==
    IF rel.Draft THEN ver
    ELSE IF ~isValid(rel.TagName) THEN ver
    ELSE IF cmp(ver, rel.TagName) < 0 THEN rel.TagName
    ELSE ver

\* selectStep with "< 1" for "< 0": of entries that compare equal the last
\* one is kept.
selectStepLastWins(ver, rel) ==
    IF rel.Draft THEN ver
    ELSE IF ~isValid(rel.TagName) THEN ver
    ELSE IF rel.Prerelease \/ isPrerelease(rel.TagName) THEN ver
    ELSE IF cmp(ver, rel.TagName) < 1 THEN rel.TagName
    ELSE ver

\* selectStep without the validity case, and with the "< 1" of line 201
\* for its "< 0".
selectStepTakesAnyTag(ver, rel) ==
    IF rel.Draft THEN ver
    ELSE IF rel.Prerelease \/ isPrerelease(rel.TagName) THEN ver
    ELSE IF cmp(ver, rel.TagName) < 1 THEN rel.TagName
    ELSE ver

\* One iteration of the loop over the release list.
selectStep(ver, rel) ==
    IF rel.Draft THEN ver
    ELSE IF ~isValid(rel.TagName) THEN ver
    ELSE IF rel.Prerelease \/ isPrerelease(rel.TagName) THEN ver
    ELSE IF cmp(ver, rel.TagName) < 0 THEN rel.TagName
    ELSE ver

\* The loop over the release list, started with newVer = ver.
RECURSIVE selectFrom(_, _)
selectFrom(ver, list) ==
    IF list = Empty THEN ver
    ELSE selectFrom(selectStep(ver, Head(list)), Tail(list))

\* var newVer string; for _, rel := range rels { ... }
selectNewest(list) == selectFrom(Empty, list)

\* if cmp(nextVer, newVer) < 1 { nextVer = newVer }
candidate(next, new) == IF cmp(next, new) < 1 THEN new ELSE next

\* etagOf that forgets the record: every fetch is unconditional.
etagForgotten(info) == ""

\* The token doWork hands to Releaser.Get: the entity tag of the record it
\* goes on with.
etagOf(info) == info.Etag

\* refreshed with the entity tag of the record read for the one returned.
refreshedKeepsEtag(info, t, tag) == Info(t, info.Version, info.Etag)

\* The record doWork writes when the list is empty: the new check time,
\* the entity tag Releaser.Get returned, the version of the record read.
refreshed(info, t, tag) == Info(t, info.Version, tag)

\* stored with the greater of the installed and the selected version.
storedUnlessInstalled(o, t, new, tag) ==
    Info(t, IF cmp(o.Version, new) < 0 THEN new ELSE o.Version, tag)

\* The record doWork, run with options o, writes after a non-empty list:
\* the new check time, the entity tag Releaser.Get returned and newVer,
\* "the latest from the remote ignoring whats installed".
stored(o, t, new, tag) == Info(t, new, tag)

\* afterFetch with the error test lost: a failed fetch refreshes the cache.
afterFetchIgnoresError(list, err) ==
    IF Len(list) = 0 THEN "refresh" ELSE "store"

\* afterFetch that tries the fetch again after an error.
afterFetchRetries(list, err) ==
    IF err # NilErr THEN "fetch"
    ELSE IF Len(list) = 0 THEN "refresh"
    ELSE "store"

\* afterFetch that leaves the cache alone when no entry of the list was
\* selected.
afterFetchSkipsUnselected(list, err) ==
    IF err # NilErr THEN "final"
    ELSE IF Len(list) = 0 THEN "refresh"
    ELSE IF selectNewest(list) = Empty THEN "final"
    ELSE "store"

\* Where doWork goes after Releaser.Get returned (list, err).
afterFetch(list, err) ==
    IF err # NilErr THEN "final"
    ELSE IF Len(list) = 0 THEN "refresh"
    ELSE "store"

\* fetched with the version of the record read, not opts.Version, as the
\* answer the selected version has to reach.
fetchedStartsFromCache(next, info, list, err) ==
    IF err # NilErr THEN info.Version
    ELSE IF Len(list) = 0 THEN info.Version
    ELSE candidate(info.Version, selectNewest(list))

\* fetched without the fallback: an error leaves nextVer as it was.
fetchedNoFallback(next, info, list, err) ==
    IF err # NilErr THEN next
    ELSE IF Len(list) = 0 THEN next
    ELSE candidate(next, selectNewest(list))

\* nextVer after Releaser.Get returned (list, err): the cached version on an
\* error, untouched on an empty list (Cacher.Set comes first), the
\* candidate otherwise.
fetched(next, info, list, err) ==
    IF err # NilErr THEN info.Version
    ELSE IF Len(list) = 0 THEN next
    ELSE candidate(next, selectNewest(list))

\* finalize that returns the version as cmp reads it, with the "v".
finalizeAddsPrefix(version, next) ==
    IF cmp(version, next) >= 0 THEN Empty ELSE maybeV(next)

\* finalize with the comparison off by one: an equal version is reported.
finalizeReportsEqual(version, next) ==
    IF cmp(version, next) > 0 THEN Empty ELSE next

\* The last three lines of doWork.
finalize(version, next) == IF cmp(version, next) >= 0 THEN Empty ELSE next

result(v, err) == [v |-> v, err |-> err]


\* ------------------------------------------------------------------------
\* State
\* ------------------------------------------------------------------------

VARIABLES
    opts,      \* the Options value the caller passes to Check, by pointer
    given,     \* that value as it was when the latest Check was called
    store,     \* the Info the cache store holds
    remote,    \* what the release source serves: [rels, etag]
    clock,     \* time.Now()
    ticks,     \* how many times the clock has advanced
    runs,      \* how many Checks have been started
    pc,        \* where the worker goroutine of the latest Check is
    ctx,       \* doWork's context: << >>, or <<t>> with t its deadline
    i,         \* doWork's i
    now,       \* doWork's now
    nextVer,   \* doWork's nextVer
    newVer,    \* doWork's newVer
    rels,      \* doWork's rels
    etag,      \* doWork's etag
    r,         \* the goroutine's r, sent on the channel
    fr,        \* Future.r: << >> for nil, <<result>> otherwise
    gpc,       \* where each caller thread is inside Future.Get
    gtmp,      \* what each caller thread received from Future.c
    gret,      \* what the Gets of each caller thread returned, in order
    calls,     \* the Cacher and Releaser calls of the latest run, in order
    works,     \* how many times doWork has run for the latest Future
    prev,      \* the run before the latest one, as it ended
    cpc,       \* where the caller is inside Check: "idle", or "returning"
    vs,        \* the strings a caller of the comparator holds
    tpc,       \* which of cmp, isValid, isPrerelease that caller calls next
    table,     \* what those calls returned
    hpc,       \* where a call of GitHubReleaser.Get is
    hreq,      \* its etag argument and the request it builds
    hresp,     \* what the HTTP client returned for the request
    hret,      \* what GitHubReleaser.Get returned
    disk,      \* the file at FileCacher.Path: << >> when there is none
    kpc,       \* where the caller of FileCacher.Set and Get is
    kin,       \* the Info handed to FileCacher.Set
    kout       \* what FileCacher.Set and FileCacher.Get returned

env == <<store, remote, clock, ticks>>
frame == <<ctx, i, now, nextVer, newVer, rels, etag, r>>
future == <<fr, gpc, gtmp, gret>>
github == <<hpc, hreq, hresp, hret>>
filer == <<disk, kpc, kin, kout>>
bench == <<vs, tpc, table, github, filer>>
vars == <<opts, given, env, runs, pc, frame, future, calls, works, prev, cpc, bench>>

\* The threads of the caller that may call Future.Get.
Callers == {1, 2}

NoRun == [ran |-> FALSE]

\* doWork's frame and the Future before anything ran.
Fresh ==
    /\ ctx = << >>
    /\ i = EmptyInfo
    /\ now = ZeroTime
    /\ nextVer = Empty
    /\ newVer = Empty
    /\ rels = Empty
    /\ etag = ""
    /\ r = result(Empty, NilErr)
    /\ fr = << >>
    /\ gpc = [g \in Callers |-> "idle"]
    /\ gtmp = [g \in Callers |-> << >>]
    /\ gret = [g \in Callers |-> << >>]
    /\ calls = << >>
    /\ works = 0

\* Check leaves doWork's frame and the Future in that state.
Started ==
    /\ ctx' = << >>
    /\ i' = EmptyInfo
    /\ now' = ZeroTime
    /\ nextVer' = Empty
    /\ newVer' = Empty
    /\ rels' = Empty
    /\ etag' = ""
    /\ r' = result(Empty, NilErr)
    /\ fr' = << >>
    /\ gpc' = [g \in Callers |-> "idle"]
    /\ gtmp' = [g \in Callers |-> << >>]
    /\ gret' = [g \in Callers |-> << >>]
    /\ calls' = << >>
    /\ works' = 0

\* The caller of the comparator has called nothing yet.
NoTable == [cmp |-> << >>, isValid |-> << >>, isPrerelease |-> << >>]

\* Nobody calls the comparator from outside doWork.
NoComparison ==
    /\ vs = << >>
    /\ tpc = "none"
    /\ table = NoTable

\* Nobody calls GitHubReleaser.Get from outside doWork.
NoRequest ==
    /\ hpc = "none"
    /\ hreq = << >>
    /\ hresp = << >>
    /\ hret = << >>

\* Nobody calls FileCacher from outside doWork.
NoFile ==
    /\ disk = << >>
    /\ kpc = "none"
    /\ kin = << >>
    /\ kout = << >>

Unused == NoComparison /\ NoRequest /\ NoFile

InitWith(optionsMenu, versions, storeMenu, lists, etags) ==
    /\ opts \in {[o EXCEPT !.Version = v] : o \in optionsMenu, v \in versions}
    /\ given = opts
    /\ store \in storeMenu
    /\ remote \in [rels : lists, etag : etags]
    /\ clock = StartTime
    /\ ticks = 0
    /\ runs = 0
    /\ pc = "none"
    /\ prev = NoRun
    /\ cpc = "idle"
    /\ Unused
    /\ Fresh

Init == InitWith(OptionsMenu, CurrentVersions, StoreMenu, ReleaseLists, SomeEtag)

\* ------------------------------------------------------------------------
\* The environment
\* ------------------------------------------------------------------------

\* Time passes.
Tick ==
    /\ ticks < MaxTicks
    /\ clock' = clock + Day
    /\ ticks' = ticks + 1
    /\ UNCHANGED <<cpc, bench, opts, given, store, remote, runs, pc, frame, future, calls, works, prev>>

\* Between two runs the caller's program is replaced by another build: the
\* next Check is given another Version.
ChangeVersion ==
    /\ 0 < runs /\ runs < MaxRuns
    /\ pc \in {"send", "done"}
    /\ \E v \in CurrentVersions \ {opts.Version} :
         opts' = [opts EXCEPT !.Version = v]
    /\ UNCHANGED <<cpc, bench, given, env, runs, pc, frame, future, calls, works, prev>>

\* ctx.Err() # nil
expired == ctx # << >> /\ clock >= ctx[1]

\* ------------------------------------------------------------------------
\* Check and the worker goroutine
\* ------------------------------------------------------------------------

\* The latest run, as a later run finds it.
Summary ==
    [ran |-> TRUE, given |-> given, opts |-> opts, i |-> i, now |-> now,
     calls |-> calls, r |-> r]

\* Check, lines 137-144: make the channel and the Future and start the
\* goroutine. The model keeps the latest Future only: the caller starts a
\* Check when the worker of the one before has finished doWork.
spawn ==
    /\ runs < MaxRuns
    /\ pc \in {"none", "send", "done"}
    /\ \A g \in Callers : gpc[g] = "idle"
    /\ runs' = runs + 1
    /\ prev' = IF runs = 0 THEN NoRun ELSE Summary
    /\ pc' = "resolve"
    /\ given' = opts
    /\ Started
    /\ UNCHANGED <<bench, opts, env>>

\* Check as one step of the caller: start the goroutine, return.
Check ==
    /\ cpc = "idle"
    /\ spawn
    /\ UNCHANGED cpc

\* Check up to its go statement, where the goroutine and the caller part.
CheckGo ==
    /\ cpc = "idle"
    /\ spawn
    /\ cpc' = "returning"

\* CheckReturn made to wait until the result has been received.
CheckReturnsWhenDone ==
    /\ cpc = "returning"
    /\ pc = "done"
    /\ cpc' = "idle"
    /\ UNCHANGED <<opts, given, env, runs, pc, frame, future, calls, works, prev, bench>>

\* Check, line 146: return &f.
CheckReturn ==
    /\ cpc = "returning"
    /\ cpc' = "idle"
    /\ UNCHANGED <<opts, given, env, runs, pc, frame, future, calls, works, prev, bench>>

\* doWork, lines 152-160: resolve the options, attach the deadline.
Resolve ==
    /\ pc = "resolve"
    /\ works' = works + 1
    /\ LET res == resolve(opts) IN
       /\ opts' = res.o
       /\ IF res.err # NilErr
          THEN /\ r' = result(Empty, res.err)
               /\ pc' = "send"
               /\ UNCHANGED ctx
          ELSE /\ ctx' = withTimeout(res.o.Timeout, clock)
               /\ pc' = "cacheGet"
               /\ UNCHANGED r
    /\ UNCHANGED <<cpc, bench, given, env, runs, i, now, nextVer, newVer, rels, etag, future, calls, prev>>

\* doWork, lines 162-165: Cacher.Get, which returns the stored record or
\* fails; a failing Get may still hand back a record.
CacherGet ==
    /\ pc = "cacheGet"
    /\ \E err \in {NilErr, <<"oops">>} :
         /\ i' = cached(store, err)
         /\ calls' = Append(calls, [op |-> "Cacher.Get", info |-> store, err |-> err])
    /\ pc' = "now"
    /\ UNCHANGED <<cpc, bench, opts, given, env, runs, ctx, now, nextVer, newVer, rels, etag, r,
                   future, works, prev>>

\* doWork, lines 167-172: sample the clock, take the fresh or the stale path.
SampleNow ==
    /\ pc = "now"
    /\ now' = clock
    /\ IF isFresh(clock, i, opts.Frequency)
       THEN /\ nextVer' = i.Version
            /\ pc' = "final"
       ELSE /\ nextVer' = opts.Version
            /\ pc' = "fetch"
    /\ UNCHANGED <<cpc, bench, opts, given, env, runs, ctx, i, newVer, rels, etag, r, future,
                   calls, works, prev>>

\* What Releaser.Get(ctx, token) may return: an error; the list and the
\* entity tag the source serves; or, when the token is the one the source
\* serves, "not modified": no list and the token back. GitHubReleaser
\* passes ctx to the HTTP client, which fails once ctx has expired.
releaserGet(token) ==
    {[rels |-> Empty, etag |-> "", err |-> <<"oops">>]}
    \cup
    IF expired /\ opts.Releaser = "GitHubReleaser" THEN {}
    ELSE {[rels |-> remote.rels, etag |-> remote.etag, err |-> NilErr]}
         \cup
         IF token # "" /\ token = remote.etag
         THEN {[rels |-> Empty, etag |-> token, err |-> NilErr]}
         ELSE {}

\* doWork, lines 173-203: Releaser.Get and, on a non-empty list, the
\* selection of newVer and nextVer.
ReleaserGet ==
    /\ pc = "fetch"
    /\ \E got \in releaserGet(etagOf(i)) :
         /\ calls' = Append(calls, [op |-> "Releaser.Get", etag |-> etagOf(i),
                                     err |-> got.err])
         /\ rels' = got.rels
         /\ etag' = got.etag
         /\ pc' = afterFetch(got.rels, got.err)
         /\ nextVer' = fetched(nextVer, i, got.rels, got.err)
         /\ newVer' = IF got.err = NilErr /\ Len(got.rels) > 0
                      THEN selectNewest(got.rels)
                      ELSE newVer
    /\ UNCHANGED <<cpc, bench, opts, given, env, runs, ctx, i, now, r, future, works, prev>>

\* Cacher.Set(ctx, info): the store takes the record, or the call fails and
\* the store keeps what it held. doWork drops the error.
cacherSet(info) ==
    \E err \in {NilErr, <<"oops">>} :
      /\ store' = IF err = NilErr THEN info ELSE store
      /\ calls' = Append(calls, [op |-> "Cacher.Set", info |-> info, err |-> err])

\* doWork, lines 177-185: the list is empty; refresh the check time.
RefreshCache ==
    /\ pc = "refresh"
    /\ cacherSet(refreshed(i, now, etag))
    /\ nextVer' = i.Version
    /\ pc' = "final"
    /\ UNCHANGED <<cpc, bench, opts, given, remote, clock, ticks, runs, ctx, i, now, newVer, rels,
                   etag, r, future, works, prev>>

\* doWork, lines 205-210: store the newest release of the list.
StoreNewest ==
    /\ pc = "store"
    /\ cacherSet(stored(opts, now, newVer, etag))
    /\ pc' = "final"
    /\ UNCHANGED <<cpc, bench, opts, given, remote, clock, ticks, runs, ctx, i, now, nextVer,
                   newVer, rels, etag, r, future, works, prev>>

\* doWork, lines 214-218, and the goroutine's r.v, r.err = doWork(...).
Finalize ==
    /\ pc = "final"
    /\ r' = result(finalize(opts.Version, nextVer), NilErr)
    /\ pc' = "send"
    /\ UNCHANGED <<cpc, bench, opts, given, env, runs, ctx, i, now, nextVer, newVer, rels, etag,
                   future, calls, works, prev>>

\* ------------------------------------------------------------------------
\* Future.Get, called by thread g
\* ------------------------------------------------------------------------

\* getTest without the memo: every Get receives.
getTestAlwaysReceives(res) == "recv"

\* if f.r == nil { receive } ; return
getTest(res) == IF res = << >> THEN "recv" ELSE "ret"

\* if f.r == nil
GetTest(g) ==
    /\ runs > 0
    /\ gpc[g] = "idle"
    /\ Len(gret[g]) < MaxGets
    /\ gpc' = [gpc EXCEPT ![g] = getTest(fr)]
    /\ UNCHANGED <<cpc, bench, opts, given, env, runs, pc, frame, fr, gtmp, gret, calls, works, prev>>

\* <-f.c, which meets the goroutine's c <- &r: the channel has no buffer.
GetRecv(g) ==
    /\ gpc[g] = "recv"
    /\ pc = "send"
    /\ gtmp' = [gtmp EXCEPT ![g] = <<r>>]
    /\ pc' = "done"
    /\ gpc' = [gpc EXCEPT ![g] = "assign"]
    /\ UNCHANGED <<cpc, bench, opts, given, env, runs, frame, fr, gret, calls, works, prev>>

\* f.r = ...
GetAssign(g) ==
    /\ gpc[g] = "assign"
    /\ fr' = gtmp[g]
    /\ gpc' = [gpc EXCEPT ![g] = "ret"]
    /\ UNCHANGED <<cpc, bench, opts, given, env, runs, pc, frame, gtmp, gret, calls, works, prev>>

\* return f.r.v, f.r.err
GetReturn(g) ==
    /\ gpc[g] = "ret"
    /\ gret' = [gret EXCEPT ![g] = Append(@, fr[1])]
    /\ gpc' = [gpc EXCEPT ![g] = "idle"]
    /\ UNCHANGED <<cpc, bench, opts, given, env, runs, pc, frame, fr, gtmp, calls, works, prev>>

\* ------------------------------------------------------------------------
\* The comparator, called on its own
\* ------------------------------------------------------------------------

program == <<opts, given, env, runs, pc, frame, future, calls, works, prev, cpc>>

\* cmp(v1, v2) for every two of the strings held.
CallCmp ==
    /\ tpc = "cmp"
    /\ table' = [table EXCEPT !.cmp =
                    [m \in DOMAIN vs |-> [n \in DOMAIN vs |-> cmp(vs[m], vs[n])]]]
    /\ tpc' = "isValid"
    /\ UNCHANGED <<program, vs, github, filer>>

\* isValid(v1) for every string held.
CallIsValid ==
    /\ tpc = "isValid"
    /\ table' = [table EXCEPT !.isValid = [m \in DOMAIN vs |-> isValid(vs[m])]]
    /\ tpc' = "isPrerelease"
    /\ UNCHANGED <<program, vs, github, filer>>

\* isPrerelease(v1) for every string held.
CallIsPrerelease ==
    /\ tpc = "isPrerelease"
    /\ table' = [table EXCEPT !.isPrerelease =
                    [m \in DOMAIN vs |-> isPrerelease(vs[m])]]
    /\ tpc' = "done"
    /\ UNCHANGED <<program, vs, github, filer>>

\* ------------------------------------------------------------------------
\* GitHubReleaser.Get, called on its own
\* ------------------------------------------------------------------------

StatusOK == 200
StatusNotModified == 304
StatusNotFound == 404

\* The releases a server lists.
ListedReleases == {Release(v101, FALSE, FALSE), Release(v111, TRUE, FALSE)}

\* A body json.Decoder cannot decode into []Release.
BadJSON == [ok |-> FALSE, rels |-> Empty]

\* The bodies of the responses: a JSON list of releases, or not.
ResponseBodies ==
    {[ok |-> TRUE, rels |-> l] : l \in SeqsUpTo(ListedReleases, MaxRels)}
    \cup {BadJSON}

\* What c.Do(req) may return: an error, or a response with a status, a
\* body and an Etag header ("" when the header is absent).
Responses ==
    {[err |-> <<"oops">>, status |-> 0, body |-> BadJSON, etag |-> ""]}
    \cup
    [err : {NilErr},
     status : {StatusOK, StatusNotModified, StatusNotFound},
     body : ResponseBodies,
     etag : RemoteEtags]

\* The etags a caller hands to GitHubReleaser.Get.
GivenEtags == {"", "etag-1", "etag-2"}

\* Lines 27-30: the headers of the request; If-None-Match only for an etag.
headers(tag) ==
    [Accept |-> <<"application/vnd.github.v3+json">>,
     IfNoneMatch |-> IF tag # "" THEN <<tag>> ELSE << >>]

\* githubReturn that answers 304 with the Etag header of the response.
githubReturnsHeaderEtag(tag, resp) ==
    IF resp.err # NilErr THEN [rels |-> Empty, etag |-> "", err |-> resp.err]
    ELSE IF tag # "" /\ resp.status = StatusNotModified
    THEN [rels |-> Empty, etag |-> resp.etag, err |-> NilErr]
    ELSE IF resp.status # StatusOK
    THEN [rels |-> Empty, etag |-> "", err |-> <<"error getting updates">>]
    ELSE IF ~resp.body.ok
    THEN [rels |-> Empty, etag |-> "", err |-> <<"decode">>]
    ELSE [rels |-> resp.body.rels, etag |-> resp.etag, err |-> NilErr]

\* Lines 40-59: what Get returns for the etag it was given and the
\* outcome of c.Do.
githubReturn(tag, resp) ==
    IF resp.err # NilErr THEN [rels |-> Empty, etag |-> "", err |-> resp.err]
    ELSE IF tag # "" /\ resp.status = StatusNotModified
    THEN [rels |-> Empty, etag |-> tag, err |-> NilErr]
    ELSE IF resp.status # StatusOK
    THEN [rels |-> Empty, etag |-> "", err |-> <<"error getting updates">>]
    ELSE IF ~resp.body.ok
    THEN [rels |-> Empty, etag |-> "", err |-> <<"decode">>]
    ELSE [rels |-> resp.body.rels, etag |-> resp.etag, err |-> NilErr]

\* Lines 22-32: build the request.
GitHubRequest ==
    /\ hpc = "call"
    /\ hreq' = [hreq EXCEPT !.header = headers(hreq.etag)]
    /\ hpc' = "do"
    /\ UNCHANGED <<program, vs, tpc, table, hresp, hret, filer>>

\* Line 39: c.Do(req).
GitHubDo ==
    /\ hpc = "do"
    /\ hresp' \in Responses
    /\ hpc' = "got"
    /\ UNCHANGED <<program, vs, tpc, table, hreq, hret, filer>>

\* Lines 40-59: return.
GitHubReturn ==
    /\ hpc = "got"
    /\ hret' = githubReturn(hreq.etag, hresp)
    /\ hpc' = "returned"
    /\ UNCHANGED <<program, vs, tpc, table, hreq, hresp, filer>>

\* ------------------------------------------------------------------------
\* FileCacher, called on its own
\* ------------------------------------------------------------------------

Quote == "\""
Backslash == "\\"

\* A byte that is not part of any UTF-8 sequence, and U+FFFD, the rune
\* encoding/json writes and reads in its place.
InvalidByte == "0xFF"
ReplacementRune == "U+FFFD"

\* Go strings that hold only valid UTF-8.
ValidUTF8(v) == \A n \in 1..Len(v) : v[n] # InvalidByte

\* A time.Time: the wall clock instant and whether a monotonic clock
\* reading comes with it, as with time.Now().
Time(t, mono) == [wall |-> t, mono |-> mono]

\* Time.Equal: the same instant.
Equal(t, u) == t.wall = u.wall

\* Time.MarshalJSON and UnmarshalJSON: RFC 3339 text holds the instant and
\* no monotonic reading.
timeToJSON(t) == [rfc3339 |-> t.wall]
timeFromJSON(j) == Time(j.rfc3339, FALSE)

\* encodeChar that writes a quote as it is.
encodeCharNoEscape(c) ==
    IF c = Backslash THEN <<Backslash, Backslash>>
    ELSE IF c = "<" THEN <<Backslash, "u", "0", "0", "3", "c">>
    ELSE IF c = InvalidByte THEN <<Backslash, "u", "f", "f", "f", "d">>
    ELSE <<c>>

\* encoding/json, one character of a string: quotes and backslashes are
\* escaped, "<" is written as the escape u003c and a byte that is not UTF-8
\* as the escape ufffd.
encodeChar(c) ==
    IF c = Quote THEN <<Backslash, Quote>>
    ELSE IF c = Backslash THEN <<Backslash, Backslash>>
    ELSE IF c = "<" THEN <<Backslash, "u", "0", "0", "3", "c">>
    ELSE IF c = InvalidByte THEN <<Backslash, "u", "f", "f", "f", "d">>
    ELSE <<c>>

RECURSIVE encodeString(_)
encodeString(v) ==
    IF v = Empty THEN Empty ELSE encodeChar(v[1]) \o encodeString(From(v, 1))

\* The rune of a \uXXXX escape.
unescape(hex) ==
    IF hex = <<"0", "0", "3", "c">> THEN "<" ELSE ReplacementRune

\* encoding/json reading the inside of a string: ok is FALSE when a quote
\* ends the string early or an escape is cut short.
RECURSIVE decodeString(_)
decodeString(j) ==
    IF j = Empty THEN [ok |-> TRUE, v |-> Empty]
    ELSE IF j[1] = Quote THEN [ok |-> FALSE, v |-> Empty]
    ELSE IF j[1] = Backslash
    THEN IF Len(j) >= 2 /\ j[2] \in {Quote, Backslash}
         THEN LET rest == decodeString(From(j, 2))
              IN [ok |-> rest.ok, v |-> <<j[2]>> \o rest.v]
         ELSE IF Len(j) >= 6 /\ j[2] = "u"
         THEN LET rest == decodeString(From(j, 6))
              IN [ok |-> rest.ok, v |-> <<unescape(SubSeq(j, 3, 6))>> \o rest.v]
         ELSE [ok |-> FALSE, v |-> Empty]
    ELSE LET rest == decodeString(From(j, 1))
         IN [ok |-> rest.ok,
             v |-> <<IF j[1] = InvalidByte THEN ReplacementRune ELSE j[1]>>
                   \o rest.v]

\* A file that was created and holds nothing.
EmptyFile == [check_time |-> << >>, version |-> Empty, etag |-> Empty]

\* Encoder.Encode(i): the JSON object of an Info.
encodeInfo(info) ==
    [check_time |-> <<timeToJSON(info.CheckTime)>>,
     version |-> encodeString(info.Version),
     etag |-> encodeString(info.Etag)]

\* The zero Info of package impl, with a time.Time for its CheckTime.
ZeroInfo == Info(Time(ZeroTime, FALSE), Empty, Empty)

\* Decoder.Decode(&i) on that file.
decodeInfo(doc) ==
    LET ver == decodeString(doc.version)
        tag == decodeString(doc.etag)
    IN IF doc.check_time = << >> THEN [info |-> ZeroInfo, err |-> <<"EOF">>]
       ELSE IF ~ver.ok \/ ~tag.ok THEN [info |-> ZeroInfo, err |-> <<"syntax">>]
       ELSE [info |-> Info(timeFromJSON(doc.check_time[1]), ver.v, tag.v),
             err |-> NilErr]

\* The entity tags a caller may hold: none, a quoted one as HTTP has them,
\* one with a "<", one with a byte that is not UTF-8.
FileEtags ==
    {Empty, <<Quote, "e", Quote>>, <<"<", "e">>, <<"e", InvalidByte>>}

\* The records handed to Set.
FileInfos ==
    {Info(Time(t, m), v, e) :
        t \in {ZeroTime, StartTime}, m \in BOOLEAN,
        v \in {Empty, v101, n200b}, e \in FileEtags}

\* FileCacher.Set, lines 33-36: os.Create makes or empties the file, or fails.
FileCreate ==
    /\ kpc = "set"
    /\ \/ /\ disk' = <<EmptyFile>>
          /\ kpc' = "encode"
          /\ UNCHANGED kout
       \/ /\ kout' = [kout EXCEPT !.set = <<"create">>]
          /\ kpc' = "get"
          /\ UNCHANGED disk
    /\ UNCHANGED <<program, vs, tpc, table, github, kin>>

\* FileCacher.Set, lines 38-41: write the record, which may fail.
FileEncode ==
    /\ kpc = "encode"
    /\ \/ /\ disk' = <<encodeInfo(kin)>>
          /\ kout' = [kout EXCEPT !.set = NilErr]
       \/ /\ kout' = [kout EXCEPT !.set = <<"write">>]
          /\ UNCHANGED disk
    /\ kpc' = "get"
    /\ UNCHANGED <<program, vs, tpc, table, github, kin>>

\* FileCacher.Get: open the file and decode it.
FileGet ==
    /\ kpc = "get"
    /\ kout' = [kout EXCEPT !.get =
                  IF disk = << >> THEN <<[info |-> << >>, err |-> <<"open">>]>>
                  ELSE <<decodeInfo(disk[1])>>]
    /\ kpc' = "done"
    /\ UNCHANGED <<program, vs, tpc, table, github, disk, kin>>

\* ------------------------------------------------------------------------
\* Specifications
\* ------------------------------------------------------------------------

Worker ==
    \/ Resolve
    \/ CacherGet
    \/ SampleNow
    \/ ReleaserGet
    \/ RefreshCache
    \/ StoreNewest
    \/ Finalize

Get(g) ==
    \/ GetTest(g)
    \/ GetRecv(g)
    \/ GetAssign(g)
    \/ GetReturn(g)

\* One Check, whose Future one thread reads, while time passes.
Next ==
    \/ runs = 0 /\ Check
    \/ Worker
    \/ Get(1)
    \/ Tick

Spec == Init /\ [][Next]_vars

\* One Check at one moment: the clock stands still during the run.
NextOnce ==
    \/ runs = 0 /\ Check
    \/ Worker
    \/ Get(1)

SpecOnce == Init /\ [][NextOnce]_vars

\* The release lists of the specifications that follow several runs or
\* several threads: one stable release and one draft.
FewReleases == {Release(v111, FALSE, FALSE), Release(v200, TRUE, FALSE)}

InitRuns ==
    InitWith(OptionsMenu, {v100}, StoreMenu,
             SeqsUpTo(FewReleases, MaxRels), RemoteEtags)

\* Checks one after the other on one Options value and one cache store.
NextRuns ==
    \/ Check
    \/ ChangeVersion
    \/ Worker
    \/ Get(1)
    \/ Tick

SpecRuns == InitRuns /\ [][NextRuns]_vars

\* A program at "1.0.1" whose source has released nothing newer, and which
\* is then replaced by an older build.
OldReleases == {Release(v100, FALSE, FALSE), Release(v101, FALSE, FALSE)}

InitDowngrade ==
    InitWith(OptionsMenu, {n101}, StoreMenu,
             SeqsUpTo(OldReleases, MaxRels), SomeEtag)

SpecDowngrade == InitDowngrade /\ [][NextRuns]_vars

\* A caller with its own Cacher and Releaser that checks once an hour.
HourlyOptions == {Options("", "", Hour, 0, "custom", "custom")}

InitHourly ==
    InitWith(HourlyOptions, {v100}, StoreMenu,
             SeqsUpTo(FewReleases, MaxRels), RemoteEtags)

\* Checks one after the other, hours apart, on one cache store.
SpecHourly == InitHourly /\ [][NextRuns]_vars


InitAsync ==
    InitWith(OptionsMenu, {v100}, StoreMenu,
             SeqsUpTo(FewReleases, MaxRels), SomeEtag)

\* The caller and the goroutine side by side: the goroutine runs from the
\* go statement on, the caller returns from Check and then calls Get.
NextAsync ==
    \/ CheckGo
    \/ CheckReturn
    \/ Worker
    \/ cpc = "idle" /\ Get(1)

SpecAsync == InitAsync /\ [][NextAsync]_vars

\* The same with two threads of the caller that both hold the Future and
\* call Get on it.
NextReaders ==
    \/ CheckGo
    \/ CheckReturn
    \/ Worker
    \/ cpc = "idle" /\ Get(1)
    \/ cpc = "idle" /\ Get(2)

SpecReaders == InitAsync /\ [][NextReaders]_vars

\* The comparator called on three strings, no Check under way.
InitCmp ==
    /\ opts \in HourlyOptions
    /\ given = opts
    /\ store = EmptyInfo
    /\ remote = [rels |-> Empty, etag |-> ""]
    /\ clock = StartTime
    /\ ticks = 0
    /\ runs = 0
    /\ pc = "none"
    /\ prev = NoRun
    /\ cpc = "idle"
    /\ Fresh
    /\ vs \in Operands \X Operands \X Operands
    /\ tpc = "cmp"
    /\ table = NoTable
    /\ NoRequest
    /\ NoFile

NextCmp ==
    \/ CallCmp
    \/ CallIsValid
    \/ CallIsPrerelease

SpecCmp == InitCmp /\ [][NextCmp]_vars

\* No Check is under way, and none was made.
NoCheck ==
    /\ opts \in HourlyOptions
    /\ given = opts
    /\ store = EmptyInfo
    /\ remote = [rels |-> Empty, etag |-> ""]
    /\ clock = StartTime
    /\ ticks = 0
    /\ runs = 0
    /\ pc = "none"
    /\ prev = NoRun
    /\ cpc = "idle"
    /\ Fresh

\* GitHubReleaser.Get called with one of the etags.
InitGitHub ==
    /\ NoCheck
    /\ NoComparison
    /\ NoFile
    /\ hpc = "call"
    /\ hreq \in [etag : GivenEtags, header : {<< >>}]
    /\ hresp = << >>
    /\ hret = << >>

NextGitHub ==
    \/ GitHubRequest
    \/ GitHubDo
    \/ GitHubReturn

SpecGitHub == InitGitHub /\ [][NextGitHub]_vars

\* A caller about to call Set and then Get on one FileCacher, whose file
\* exists or not.
InitFile ==
    /\ NoCheck
    /\ NoComparison
    /\ NoRequest
    /\ disk \in {<< >>, <<encodeInfo(Info(Time(ZeroTime, FALSE), v100, Empty))>>}
    /\ kpc = "set"
    /\ kin \in FileInfos
    /\ kout = [set |-> << >>, get |-> << >>]

NextFile ==
    \/ FileCreate
    \/ FileEncode
    \/ FileGet

SpecFile == InitFile /\ [][NextFile]_vars

\* ------------------------------------------------------------------------
\* What the claims speak of
\* ------------------------------------------------------------------------

\* The (version, error) pairs the Gets on the latest Future have returned.
Returned == UNION {{gret[g][n] : n \in 1..Len(gret[g])} : g \in Callers}

\* The calls of kind op the latest run has made.
CallsOf(op) == {n \in 1..Len(calls) : calls[n].op = op}

\* Releaser.Get was called and returned an error.
FetchFailed == \E n \in CallsOf("Releaser.Get") : calls[n].err # NilErr

\* Releaser.Get was called and returned a non-empty list.
FetchedList ==
    /\ \E n \in CallsOf("Releaser.Get") : calls[n].err = NilErr
    /\ Len(rels) > 0

\* Both a custom collaborator and the setting of the default one.
Misconfigured(o) ==
    \/ o.Cacher # "nil" /\ o.Cache # ""
    \/ o.Releaser # "nil" /\ o.Slug # ""

\* doWork has returned: the goroutine holds its result.
Resolved == pc \in {"send", "done"}

\* "The cached last-known version compared against the current version":
\* the rule of the spec's Finalize, written out.
Newer(version, cachedVersion) ==
    IF cmp(version, cachedVersion) < 0 THEN cachedVersion ELSE Empty

\* The entries of the list that carry tag.
EntriesOf(list, tag) == {k \in 1..Len(list) : list[k].TagName = tag}

\* The versions the run wrote to the cache.
Written == {calls[n].info.Version : n \in CallsOf("Cacher.Set")}

\* ------------------------------------------------------------------------
\* Claims
\* ------------------------------------------------------------------------

\* C1: whatever the cache record, the release list and the failures of the
\* cache and of the release source, the version Future.Get returns is the
\* empty string or a version strictly greater than the caller's.
C1_ResultIsEmptyOrNewer ==
    /\ \A res \in Returned : res.v = Empty \/ cmp(given.Version, res.v) < 0
    /\ Resolved => (r.v = Empty \/ cmp(given.Version, r.v) < 0)

\* A Get returned an update in a run whose cache write failed.
C1_Witness ==
    /\ \E res \in Returned : res.v # Empty
    /\ \E n \in CallsOf("Cacher.Set") : calls[n].err # NilErr

\* C2: on the stale path, when Releaser.Get returns an error, the result is
\* the cached version if it is strictly greater than opts.Version and the
\* empty string otherwise, and the error is nil. The cached version is the
\* one Cacher.Get returned (none when Cacher.Get failed).
C2_FetchErrorFallsBackToCache ==
    (Resolved /\ FetchFailed) =>
        /\ r.err = NilErr
        /\ r.v = Newer(given.Version,
                       IF calls[1].err = NilErr THEN calls[1].info.Version
                       ELSE Empty)
        /\ \A res \in Returned : res = r

\* A Get returned the cached version after the release source failed.
C2_Witness ==
    /\ FetchFailed
    /\ \E res \in Returned : res.v # Empty /\ res.v = store.Version

\* Releaser.Get was called in the run before and returned an error.
PrevFetchFailed ==
    /\ prev.ran
    /\ \E n \in 1..Len(prev.calls) :
         prev.calls[n].op = "Releaser.Get" /\ prev.calls[n].err # NilErr

\* C3: when Releaser.Get returns an error, Cacher.Set is not called in that
\* run and the store keeps the record it held; a following run that reads
\* the same record is stale again and calls the release source again.
C3_FetchErrorLeavesCacheAlone ==
    /\ FetchFailed =>
           /\ CallsOf("Cacher.Set") = {}
           /\ store = calls[1].info
    /\ (PrevFetchFailed /\ Len(calls) > 0 /\ i = prev.i
            /\ pc \notin {"cacheGet", "now"}) =>
           /\ ~(Sub(now, i.CheckTime) < opts.Frequency)
           /\ pc = "fetch" \/ CallsOf("Releaser.Get") # {}

\* After a failed fetch, a second run read the same stored record and
\* called the release source again.
C3_Witness ==
    /\ PrevFetchFailed
    /\ i = prev.i /\ i = store /\ i # EmptyInfo
    /\ calls[1].err = NilErr
    /\ CallsOf("Releaser.Get") # {}

\* C4: when the record read at the start of the run is fresh, neither
\* Releaser.Get nor Cacher.Set is called in the run, and the candidate
\* answer is the cached version.
C4_FreshRunMakesNoCalls ==
    (pc \in {"fetch", "refresh", "store", "final", "send", "done"}
        /\ Len(calls) > 0
        /\ Sub(now, i.CheckTime) < opts.Frequency) =>
        /\ CallsOf("Releaser.Get") = {}
        /\ CallsOf("Cacher.Set") = {}
        /\ pc \in {"final", "send", "done"}
        /\ nextVer = i.Version
        /\ Resolved => r = result(Newer(given.Version, i.Version), NilErr)

\* A fresh run has returned the cached version to the caller.
C4_Witness ==
    /\ Len(calls) > 0
    /\ Sub(now, i.CheckTime) < opts.Frequency
    /\ \E res \in Returned : res.v # Empty /\ res.v = i.Version

\* C5: the Gets one thread makes on a Future one after the other all return
\* what the first returned, which is what doWork returned; doWork runs
\* once for the Future; only the first Get receives from the channel.
C5_GetIsRepeatable ==
    /\ works <= 1
    /\ \A g \in Callers :
         /\ \A n \in 1..Len(gret[g]) : gret[g][n] = gret[g][1] /\ gret[g][n] = r
         /\ Len(gret[g]) > 0 => works = 1 /\ pc = "done"
         /\ gpc[g] \in {"recv", "assign"} => Len(gret[g]) = 0

\* A second Get has returned.
C5_Witness == \E g \in Callers : Len(gret[g]) >= 2 /\ gret[g][2].v # Empty

C7_OnlyConfigurationErrors ==
    ~Misconfigured(given) =>
        /\ Resolved => r.err = NilErr
        /\ \A res \in Returned : res.err = NilErr

\* A Get returned after both Cacher.Get and Cacher.Set had failed.
C7_Witness ==
    /\ Returned # {}
    /\ \E n \in CallsOf("Cacher.Get") : calls[n].err # NilErr
    /\ \E n \in CallsOf("Cacher.Set") : calls[n].err # NilErr

\* C8: in a run that fetches a non-empty list, the selected version, the
\* version written to the cache and the version returned are never the tag
\* of a draft: each is the tag of some entry that is not a draft, or empty.
C8_DraftsAreNeverSelected ==
    FetchedList =>
        /\ newVer # Empty => \E k \in EntriesOf(rels, newVer) : ~rels[k].Draft
        /\ \A v \in Written : v = newVer
        /\ (Resolved /\ r.v # Empty) =>
               \E k \in EntriesOf(rels, r.v) : ~rels[k].Draft

\* The list led with a draft greater than the entry that was returned.
C8_Witness ==
    /\ FetchedList
    /\ rels[1].Draft /\ cmp(newVer, rels[1].TagName) < 0
    /\ \E res \in Returned : res.v # Empty /\ res.v = newVer

\* C9: in a run that fetches a non-empty list, the selected version, the
\* version written to the cache and the version returned are never taken
\* from a prerelease, by flag or by tag: each is the tag of some stable
\* entry, or empty.
C9_PrereleasesAreNeverSelected ==
    FetchedList =>
        /\ ~isPrerelease(newVer)
        /\ newVer # Empty =>
               \E k \in EntriesOf(rels, newVer) : ~rels[k].Prerelease
        /\ \A v \in Written : v = newVer
        /\ Resolved =>
               /\ ~isPrerelease(r.v)
               /\ r.v # Empty =>
                      \E k \in EntriesOf(rels, r.v) : ~rels[k].Prerelease

\* A list of prereleases only, one by flag and one by tag, gave no update.
C9_Witness ==
    /\ FetchedList
    /\ Len(rels) = 2
    /\ rels[1].Prerelease /\ isPrerelease(rels[2].TagName)
    /\ \E res \in Returned : res.v = Empty
    /\ Written = {Empty}

\* C10: a release whose tag is not a valid version is never selected, and a
\* list holding only such tags yields the empty result with a nil error.
C10_InvalidTagsAreSkipped ==
    FetchedList =>
        /\ newVer # Empty => isValid(newVer)
        /\ (\A k \in 1..Len(rels) : ~isValid(rels[k].TagName)) =>
               /\ newVer = Empty
               /\ Resolved => r = result(Empty, NilErr)
               /\ \A res \in Returned : res = result(Empty, NilErr)

\* A list of one invalid tag gave the empty result.
C10_Witness ==
    /\ FetchedList
    /\ \A k \in 1..Len(rels) : ~isValid(rels[k].TagName)
    /\ \E res \in Returned : res = result(Empty, NilErr)

\* The entries of the list that may be selected: not a draft, a valid
\* tag, not a prerelease by flag or by tag.
Eligible(list) ==
    {k \in 1..Len(list) :
        /\ ~list[k].Draft
        /\ isValid(list[k].TagName)
        /\ ~list[k].Prerelease
        /\ ~isPrerelease(list[k].TagName)}

\* The eligible entries no eligible entry is greater than.
Greatest(list) ==
    {k \in Eligible(list) :
        \A j \in Eligible(list) : cmp(list[j].TagName, list[k].TagName) <= 0}

\* The least position of a non-empty set of positions.
First(S) == CHOOSE k \in S : \A j \in S : k <= j

\* C11: of a non-empty release list the selected version is the tag of the
\* eligible entry with the greatest version, wherever it stands; of several
\* eligible entries that compare equal to the greatest, the first one; and
\* the empty string when no entry is eligible.
C11_GreatestEligibleFirstSeen ==
    FetchedList =>
        newVer = IF Eligible(rels) = {} THEN Empty
                 ELSE rels[First(Greatest(rels))].TagName

\* Two eligible entries compared equal, "1.1.1" before "v1.1.1", and the
\* first was selected and returned.
C11_Witness ==
    /\ FetchedList
    /\ Len(rels) = 2
    /\ rels[1].TagName = n111 /\ rels[2].TagName = v111
    /\ Greatest(rels) = {1, 2}
    /\ newVer = n111
    /\ \E res \in Returned : res.v = n111

\* C12: when Cacher.Get returns an error the run goes on as from the empty
\* record, whatever record came with the error: it is stale, calls
\* Releaser.Get with the empty token, and returns, with a nil error, what
\* the fetch alone decides: the selected version when it is greater than
\* the caller's, the empty string otherwise.
C12_CacheReadErrorIsEmptyRecord ==
    (Len(calls) > 0 /\ calls[1].err # NilErr) =>
        /\ i = EmptyInfo
        /\ pc \notin {"now", "fetch"} => CallsOf("Releaser.Get") # {}
        /\ \A n \in CallsOf("Releaser.Get") : calls[n].etag = ""
        /\ Resolved =>
               r = result(Newer(given.Version,
                                IF FetchedList THEN newVer ELSE Empty), NilErr)
        /\ \A res \in Returned : res = r

\* Cacher.Get failed and handed back a record checked an hour ago; the run
\* fetched all the same and returned an update.
C12_Witness ==
    /\ Len(calls) > 0 /\ calls[1].err # NilErr
    /\ calls[1].info = Info(StartTime - Hour, v101, "etag-1")
    /\ now = StartTime
    /\ \E res \in Returned : res.v # Empty /\ res.v = newVer

\* Releaser.Get was called and returned no error and an empty list.
FetchedNothing ==
    /\ \E n \in CallsOf("Releaser.Get") : calls[n].err = NilErr
    /\ Len(rels) = 0

\* C13: on the stale path, when Releaser.Get returns an empty list without
\* error, Cacher.Set is called exactly once, with the check time the run
\* sampled, the token Releaser.Get returned and the version of the record
\* read; the candidate answer of the run is that version.
C13_EmptyListRefreshesRecord ==
    (FetchedNothing /\ pc # "refresh") =>
        /\ Cardinality(CallsOf("Cacher.Set")) = 1
        /\ \A n \in CallsOf("Cacher.Set") :
             calls[n].info = Info(now, i.Version, etag)
        /\ nextVer = i.Version
        /\ Resolved => r = result(Newer(given.Version, i.Version), NilErr)

\* The source answered "not modified" to the token of a record eight days
\* old, and the record was written back with the time of this run.
C13_Witness ==
    /\ FetchedNothing
    /\ remote.rels # Empty
    /\ i = Info(StartTime - 8 * Day, v100, "etag-2")
    /\ store = Info(now, v100, "etag-2")
    /\ Returned # {}

\* A non-empty list was fetched and doWork has left the selection behind.
Selected == FetchedList /\ pc \in {"store", "final", "send", "done"}

\* C14, as claimed: with a non-empty list the candidate answer is the
\* greater of the selected version and the version of the record read, the
\* selected one taking over only when strictly greater; so it is the
\* version of the record read when every entry is filtered out. Finalize
\* compares that candidate with the current version, which gives the result.
C14_CandidateIsSelectedOrCached ==
    (Selected /\ Resolved) =>
        r.v = Newer(given.Version,
                    IF cmp(i.Version, newVer) < 0 THEN newVer ELSE i.Version)

\* C14, amended: with a non-empty list the candidate answer is the greater
\* of the selected version and the caller's current version, the selected
\* one taking over when greater or equal; the version of the record read
\* plays no part. When every entry is filtered out the candidate answer is
\* the current version and the result is empty.
C14_CandidateIsSelectedOrCurrent ==
    Selected =>
        /\ nextVer = IF cmp(given.Version, newVer) <= 0 THEN newVer
                     ELSE given.Version
        /\ Eligible(rels) = {} =>
               /\ nextVer = given.Version
               /\ Resolved => r = result(Empty, NilErr)

\* The record read held "v1.0.1", the caller ran "v1.0.0", every entry of
\* the list was filtered out, and Get returned the empty string.
C14_Witness ==
    /\ Selected
    /\ i.Version = v101 /\ given.Version = v100
    /\ Eligible(rels) = {}
    /\ \E res \in Returned : res = result(Empty, NilErr)

\* The records the run before wrote to the store.
PrevWritten ==
    {prev.calls[n].info : n \in {m \in 1..Len(prev.calls) :
        prev.calls[m].op = "Cacher.Set" /\ prev.calls[m].err = NilErr}}

\* C15: after a non-empty list the run writes one record, which holds the
\* best eligible version of the list whether or not that version is
\* greater than opts.Version; and a later run that reads that record, finds
\* it fresh and runs a lower version than the stored one returns the
\* stored version.
C15_StoresNewestOfRemote ==
    /\ (Selected /\ pc # "store") =>
           /\ Cardinality(CallsOf("Cacher.Set")) = 1
           /\ \A n \in CallsOf("Cacher.Set") :
                calls[n].info =
                    Info(now,
                         IF Eligible(rels) = {} THEN Empty
                         ELSE rels[First(Greatest(rels))].TagName,
                         etag)
    /\ (prev.ran /\ Len(calls) > 0 /\ calls[1].err = NilErr
            /\ i \in PrevWritten
            /\ pc \notin {"cacheGet", "now"}
            /\ Sub(now, i.CheckTime) < opts.Frequency
            /\ cmp(given.Version, i.Version) < 0
            /\ Resolved) =>
           r = result(i.Version, NilErr)

\* The program at "1.0.1" fetched a list whose best release was "v1.0.1",
\* got no update and stored "v1.0.1"; replaced by "v1.0.0", its next run
\* found the record fresh and returned "v1.0.1".
C15_Witness ==
    /\ prev.ran
    /\ prev.given.Version = n101 /\ prev.i.Version # v101
    /\ prev.r = result(Empty, NilErr)
    /\ i \in PrevWritten /\ i.Version = v101
    /\ given.Version = v100
    /\ CallsOf("Releaser.Get") = {}
    /\ \E res \in Returned : res = result(v101, NilErr)

\* C16: in runs that share one cache store, a stale run hands Releaser.Get
\* the token of the record it read, which is the record the run before
\* wrote when that run wrote one, and the empty string when the record is
\* empty or the read failed; every record a run writes holds the token
\* that run's Releaser.Get returned, the empty one included.
C16_TokenPassesThrough ==
    /\ \A n \in CallsOf("Releaser.Get") :
         /\ calls[n].etag = IF calls[1].err = NilErr
                            THEN calls[1].info.Etag ELSE ""
         /\ (prev.ran /\ PrevWritten # {} /\ calls[1].err = NilErr) =>
                \E w \in PrevWritten : calls[n].etag = w.Etag
    /\ \A n \in CallsOf("Cacher.Set") : calls[n].info.Etag = etag

\* A run read "etag-1" and stored the "etag-2" the source returned; a day
\* later the next run handed "etag-2" to Releaser.Get and wrote a record.
C16_Witness ==
    /\ prev.ran
    /\ prev.i.Etag = "etag-1"
    /\ \E w \in PrevWritten : w.Etag = "etag-2"
    /\ \E n \in CallsOf("Releaser.Get") : calls[n].etag = "etag-2"
    /\ \E n \in CallsOf("Cacher.Set") : calls[n].err = NilErr

\* The string v is, character for character, the tag of an entry of the
\* list fetched, or else, when no list was fetched, the version of the
\* record read.
Verbatim(v) ==
    IF FetchedList THEN \E k \in 1..Len(rels) : rels[k].TagName = v
    ELSE v = i.Version

\* C17: a non-empty result is, character for character, the tag of the
\* release chosen or the version of the cached record, with or without
\* the leading "v" as that string has it, whatever opts.Version has.
C17_ResultIsVerbatim ==
    /\ (Resolved /\ r.v # Empty) => Verbatim(r.v)
    /\ \A res \in Returned : res.v # Empty => Verbatim(res.v)

\* The caller ran "v1.0.0" and the only release was tagged "1.1.1": Get
\* returned "1.1.1".
C17_Witness ==
    /\ given.Version = v100
    /\ FetchedList
    /\ \A k \in 1..Len(rels) : rels[k].TagName = n111
    /\ \E res \in Returned : res.v = n111

\* C18: cmp, isValid and isPrerelease give the same results for a string
\* without the leading "v" and for that string with it, on either side of
\* cmp and whatever the other operand is.
C18_PrefixMakesNoDifference ==
    \A m, n \in DOMAIN vs :
        (vs[m] \in Bodies /\ vs[n] = WithV(vs[m])) =>
            /\ table.cmp # << >> =>
                   \A k \in DOMAIN vs :
                       /\ table.cmp[m][k] = table.cmp[n][k]
                       /\ table.cmp[k][m] = table.cmp[k][n]
            /\ table.isValid # << >> => table.isValid[m] = table.isValid[n]
            /\ table.isPrerelease # << >> =>
                   table.isPrerelease[m] = table.isPrerelease[n]

\* "1.0.1" and "v1.0.1" were both compared with "1.1.1", and were both
\* found less and valid.
C18_Witness ==
    /\ tpc = "done"
    /\ vs = <<n101, v101, n111>>
    /\ table.cmp[1][3] = -1 /\ table.cmp[2][3] = -1
    /\ table.cmp[1][2] = 0
    /\ table.isValid[1] /\ table.isValid[2]

\* C19: on valid versions, with or without the "v", cmp(a, b) = -cmp(b, a),
\* and cmp(a, b) <= 0 with cmp(b, c) <= 0 gives cmp(a, c) <= 0; a string
\* that is not a valid version, the empty one included, compares less than
\* every valid version and equal to every other such string.
C19_CmpIsAnOrder ==
    (table.cmp # << >> /\ table.isValid # << >>) =>
        \A a, b \in DOMAIN vs :
            /\ (table.isValid[a] /\ table.isValid[b]) =>
                   /\ table.cmp[a][b] = -table.cmp[b][a]
                   /\ \A c \in DOMAIN vs :
                        (table.isValid[c] /\ table.cmp[a][b] <= 0
                            /\ table.cmp[b][c] <= 0) => table.cmp[a][c] <= 0
            /\ (~table.isValid[a] /\ table.isValid[b]) =>
                   table.cmp[a][b] < 0 /\ table.cmp[b][a] > 0
            /\ (~table.isValid[a] /\ ~table.isValid[b]) => table.cmp[a][b] = 0

\* "v1.0.1", the prerelease "2.0.0-b" and "v2.0.0" were found in that
\* order, each way round.
C19_Witness ==
    /\ tpc = "done"
    /\ vs = <<v101, n200b, v200>>
    /\ table.cmp[1][2] = -1 /\ table.cmp[2][3] = -1 /\ table.cmp[1][3] = -1
    /\ table.cmp[3][1] = 1 /\ table.cmp[2][1] = 1

\* C20: Check returns whatever the goroutine has or has not done: its
\* return is enabled at every position of the worker. Of the caller's steps
\* only the receive inside Get waits, until the worker holds its result,
\* and no Get returns before that.
C20_OnlyGetWaits ==
    /\ cpc = "returning" => ENABLED CheckReturn
    /\ \A g \in Callers :
         /\ gpc[g] = "recv" => (ENABLED GetRecv(g) <=> pc = "send")
         /\ gpc[g] = "assign" => ENABLED GetAssign(g)
         /\ gpc[g] = "ret" => ENABLED GetReturn(g)
         /\ (gpc[g] \in {"assign", "ret"} \/ Len(gret[g]) > 0) => pc = "done"

\* Check has returned and the caller waits in Get while the goroutine has
\* not taken its first step.
C20_Witness ==
    /\ runs = 1 /\ cpc = "idle"
    /\ pc = "resolve" /\ works = 0 /\ calls = << >>
    /\ gpc[1] = "recv"

\* C21: GitHubReleaser.Get called with a non-empty etag sends it in the
\* If-None-Match header, and when the server answers 304 Not Modified it
\* returns an empty list, the etag it was given and no error.
C21_NotModifiedReturnsGivenEtag ==
    hpc \notin {"none", "call"} /\ hreq.etag # "" =>
        /\ hreq.header.IfNoneMatch = <<hreq.etag>>
        /\ (hpc = "returned" /\ hresp.err = NilErr
                /\ hresp.status = StatusNotModified) =>
               hret = [rels |-> Empty, etag |-> hreq.etag, err |-> NilErr]

\* Get was called with "etag-1", the server answered 304 with another
\* Etag header, and Get returned "etag-1".
C21_Witness ==
    /\ hpc = "returned"
    /\ hreq.etag = "etag-1"
    /\ hresp.err = NilErr /\ hresp.status = StatusNotModified
    /\ hresp.etag = "etag-2"
    /\ hret.etag = "etag-1" /\ hret.err = NilErr

\* Set returned no error and the Get after it has returned.
RoundTrip == kpc = "done" /\ kout.set = NilErr

\* The record Get returned has the Version, the Etag and the instant of
\* the record handed to Set, and Get returned no error.
SameRecord ==
    /\ kout.get[1].err = NilErr
    /\ kout.get[1].info.Version = kin.Version
    /\ kout.get[1].info.Etag = kin.Etag
    /\ Equal(kout.get[1].info.CheckTime, kin.CheckTime)

\* C22, as claimed: after Set(i) succeeds the next Get on the same path
\* returns a record with the same Version and Etag and an equal
\* CheckTime, and no error.
C22_FileRoundTrip == RoundTrip => SameRecord

\* C22, amended: the same, for a record whose Version and Etag are valid
\* UTF-8.
C22_FileRoundTripOfUTF8 ==
    (RoundTrip /\ ValidUTF8(kin.Version) /\ ValidUTF8(kin.Etag)) => SameRecord

\* A record with a quoted entity tag and a monotonic clock reading came
\* back with the same tag and an equal, not identical, CheckTime.
C22_Witness ==
    /\ RoundTrip
    /\ kin.Etag = <<Quote, "e", Quote>> /\ kin.Version = n200b
    /\ kin.CheckTime.mono
    /\ SameRecord
    /\ kout.get[1].info.CheckTime # kin.CheckTime

\* The goroutine is running: it has not yet left the function literal.
Running == pc \notin {"none", "done"}

\* C23, as claimed: the worker runs to completion whether or not the
\* caller ever calls Get, so wherever it stands before its end it has a
\* step of its own to take that needs no reader.
C23_WorkerNeedsNoReader == Running => ENABLED Worker

\* C24, as claimed: no interleaving of two concurrent Gets leaves one of
\* them blocked forever on the channel, so no Get waits at the receive when
\* the worker has sent its one value and gone.
C24_NoGetLeftWaiting == \A g \in Callers : gpc[g] = "recv" => pc # "done"

\* The Options value sets Cache or Slug and brings no Cacher or Releaser.
SetsDefaultsOnly(o) ==
    /\ o.Cacher = "nil" /\ o.Releaser = "nil"
    /\ o.Cache # "" \/ o.Slug # ""

\* A Check on such a value passed validation, and the Check after it on
\* the same value passes validation too.
ValidationRepeatable ==
    (/\ prev.ran /\ Resolved
     /\ SetsDefaultsOnly(prev.given)
     /\ ~errorsIs(prev.r.err, ErrMisconfiguredOptions)) =>
        ~errorsIs(r.err, ErrMisconfiguredOptions)

\* The caller's Options after a run are those it passed to Check, but for
\* the Version the caller itself may change.
OptionsLeftAsSupplied ==
    Resolved => opts = [given EXCEPT !.Version = opts.Version]

\* C25, as claimed: when a first Check on an Options value with a Cache
\* path or a Slug and no custom Cacher or Releaser passes validation, a
\* second Check on the same value does not return ErrMisconfiguredOptions,
\* and a run leaves the caller's Options as they were supplied.
C25_ValidationRepeatable == ValidationRepeatable /\ OptionsLeftAsSupplied

\* The fetch is in flight and the deadline, still ahead when the run
\* sampled its time, has passed.
ExpiredInFlight ==
    /\ pc = "fetch"
    /\ opts.Timeout > 0 /\ ctx # << >>
    /\ now < ctx[1]
    /\ expired

\* C26, as claimed: when Timeout > 0 and the deadline passes while the
\* fetch is in flight, the run goes on as for a fetch error: straight to
\* its last step without Cacher.Set, with the cached version as the
\* candidate answer.
C26_ExpiredFetchIsFetchError ==
    [][(ExpiredInFlight /\ pc' # "fetch") =>
          (pc' = "final" /\ nextVer' = i.Version /\ newVer' = newVer)]_vars

\* The options passed validation: the run is beyond resolve and did not
\* end there.
Validated == pc \notin {"none", "resolve"} /\ ~Misconfigured(given)

\* C27: after validation a Frequency given as 0 is seven days and a
\* Timeout given as 0 is five seconds, every other value is as given; the
\* run has a deadline, Timeout after its start, when that Timeout is
\* positive, and none when it is negative.
C27_DefaultsAndDeadline ==
    Validated =>
        /\ opts.Frequency = IF given.Frequency = 0 THEN 7 * Day ELSE given.Frequency
        /\ opts.Timeout = IF given.Timeout = 0 THEN 5 * Second ELSE given.Timeout
        /\ opts.Timeout > 0 => ctx = <<clock + opts.Timeout>>
        /\ opts.Timeout < 0 => ctx = << >>

\* Options without Frequency or Timeout ran with seven days, five seconds
\* and a deadline.
C27_Witness ==
    /\ Validated /\ pc = "done"
    /\ given.Frequency = 0 /\ given.Timeout = 0
    /\ opts.Frequency = DefaultFrequency /\ opts.Timeout = DefaultTimeout
    /\ ctx = <<StartTime + 5 * Second>>

\* The operations of the calls made so far, in order.
Operations == [n \in 1..Len(calls) |-> calls[n].op]

\* C28: in a run with valid options the calls made so far are a beginning
\* of Cacher.Get, Releaser.Get, Cacher.Set, each at most once: Cacher.Get
\* is made once the run is beyond it, Cacher.Set only follows a
\* Releaser.Get that returned no error, and resolve itself ran once.
C28_CallsInOrderOnce ==
    Validated =>
        /\ \E n \in 0..3 :
             Operations = SubSeq(<<"Cacher.Get", "Releaser.Get", "Cacher.Set">>, 1, n)
        /\ pc # "cacheGet" <=> Len(calls) >= 1
        /\ Len(calls) = 3 => calls[2].err = NilErr
        /\ works = 1

\* A run made all three calls, and its cache write failed.
C28_Witness ==
    /\ Validated /\ pc = "done"
    /\ Operations = <<"Cacher.Get", "Releaser.Get", "Cacher.Set">>
    /\ calls[3].err # NilErr

\* The fetch returned a non-empty list without an eligible entry and the
\* run is beyond its cache write.
NoneEligible ==
    /\ FetchedList /\ Eligible(rels) = {}
    /\ pc \in {"final", "send", "done"}

\* C30: after a fetch that returned a non-empty list with no eligible
\* entry the selected version is empty and Cacher.Set was called once,
\* with the time of this run, the entity tag fetched and an empty Version;
\* unless that call failed the store holds this record, whatever version
\* it held before.
C30_NoneEligibleClearsCache ==
    NoneEligible =>
        /\ newVer = Empty
        /\ \E n \in CallsOf("Cacher.Set") :
             /\ CallsOf("Cacher.Set") = {n}
             /\ calls[n].info = Info(now, Empty, etag)
             /\ calls[n].err = NilErr => store = Info(now, Empty, etag)

\* A cache that held "v1.0.1" holds no version after a run that fetched a
\* draft and a prerelease.
C30_Witness ==
    /\ NoneEligible /\ pc = "done"
    /\ i.Version = v101
    /\ Len(rels) = 2 /\ rels[1].Draft /\ rels[2].Prerelease
    /\ store = Info(now, Empty, "etag-2")

\* The run before was stale, its fetch returned no error and its cache
\* write was persisted; this run has the same current version, is within
\* Frequency of the time the run before sampled, and its cache read, when
\* it made one, did not fail.
FollowsPersistedRun ==
    /\ prev.ran /\ Resolved
    /\ \E n \in 1..Len(prev.calls) :
         prev.calls[n].op = "Releaser.Get" /\ prev.calls[n].err = NilErr
    /\ PrevWritten # {}
    /\ given.Version = prev.given.Version
    /\ Sub(clock, prev.now) < prev.opts.Frequency
    /\ Len(calls) > 0 => calls[1].err = NilErr

\* This run did not call the release source and its result is that of the
\* run before.
SameAnswerWithoutFetch ==
    /\ CallsOf("Releaser.Get") = {}
    /\ r = prev.r

\* C29, as claimed: after a stale run whose fetch succeeded and whose cache
\* write was persisted, a following run with the same current version that
\* starts less than Frequency later does not call the release source and
\* returns the same result as the first run.
C29_FollowingRunIsFresh == FollowsPersistedRun => SameAnswerWithoutFetch

\* The same of the following runs whose Options pass validation.
FollowingValidRunIsFresh ==
    (FollowsPersistedRun /\ ~Misconfigured(given)) => SameAnswerWithoutFetch

====
